---- MODULE Spec2Model ----
(***************************************************************************)
(* Model of inspiremusic/utils/common.py: the token samplers               *)
(* (random_sampling, nucleus_sampling, topk_sampling, ras_sampling,        *)
(* caras_sampling, top_p_sampling_with_constraints), the repetition        *)
(* penalty relieve_repetition and the batch padding pad_list.              *)
(*                                                                         *)
(* Conventions.  A tensor of rank 1 is a sequence; token id t is the       *)
(* entry at position t + 1.  A logit is an integer number of tenths        *)
(* (4 stands for 0.4) or NegInf; exp is the table Exp, in units of 1e-4.   *)
(* Entry i of softmax(v) is Exp(v[i]) over the sum of all Exp(v[j]); top_p, *)
(* tau_r, temperature and the repetition penalty are rationals <<n, d>>    *)
(* with d > 0, and comparisons are made by cross multiplication.  A        *)
(* multinomial draw is a nondeterministic choice among the entries of      *)
(* positive probability.                                                   *)
(***************************************************************************)
EXTENDS Integers, Sequences, FiniteSets, TLC

VARIABLES decoded_tokens, call

vars == <<decoded_tokens, call>>

(***************************************************************************)
(* Bounds of the model.                                                    *)
(***************************************************************************)
VocabSize == 3
MaxHistory == 2
MaxLen == 4
MaxBatch == 3
MaxSeqLen == 4
MaxRecent == 2

(* float('-inf'), the sentinel topk_sampling fills the masked vector with *)
NegInf == -999

(***************************************************************************)
(* Arithmetic helpers.                                                     *)
(***************************************************************************)
RECURSIVE SumSeq(_)
SumSeq(s) == IF s = <<>> THEN 0 ELSE Head(s) + SumSeq(Tail(s))

RECURSIVE Pow(_, _)
Pow(b, e) == IF e = 0 THEN 1 ELSE b * Pow(b, e - 1)

Min(a, b) == IF a < b THEN a ELSE b

Range(s) == {s[i] : i \in 1..Len(s)}

RECURSIVE SeqsUpTo(_, _)
SeqsUpTo(S, n) ==
    IF n = 0 THEN {<<>>}
    ELSE LET shorter == SeqsUpTo(S, n - 1)
         IN  shorter \cup {Append(s, x) : s \in {t \in shorter : Len(t) = n - 1}, x \in S}

(* e^(x/10) in units of 1e-4; e^(-inf) = 0 *)
Exp(x) ==
    CASE x = NegInf -> 0
      [] x = 0  -> 10000
      [] x = 1  -> 11052
      [] x = 2  -> 12214
      [] x = 3  -> 13499
      [] x = 4  -> 14918
      [] x = 20 -> 73891
      [] x = 30 -> 200855

(* the scores taken as probabilities already, with no softmax *)
SoftmaxSkipped(v) == [i \in 1..Len(v) |-> v[i]]

(* tensor.softmax(dim=0): entry i is Softmax(v)[i] / SumSeq(Softmax(v)) *)
Softmax(v) == [i \in 1..Len(v) |-> Exp(v[i])]

(* tensor.sort(descending=True, stable=True): the positions of p, larger   *)
(* values first, equal values in their original order                      *)
SortedIdx(p) ==
    LET n == Len(p)
        Rank(i) == Cardinality({j \in 1..n : p[j] > p[i] \/ (p[j] = p[i] /\ j < i)}) + 1
    IN  [r \in 1..n |-> CHOOSE i \in 1..n : Rank(i) = r]

(* the draw's position returned one-based *)
random_sampling_OneBased(weighted_scores) ==
    LET p == Softmax(weighted_scores)
    IN  {j \in 1..Len(p) : p[j] > 0}

(***************************************************************************)
(* random_sampling: softmax, then one multinomial draw.  The result is the *)
(* set of token ids the draw can return.                                   *)
(***************************************************************************)
random_sampling(weighted_scores) ==
    LET p == Softmax(weighted_scores)
    IN  {i - 1 : i \in {j \in 1..Len(p) : p[j] > 0}}

(***************************************************************************)
(* nucleus_sampling.  NucleusCandidates is the for loop: prob and indices  *)
(* (token ids) collected while cum_prob < top_p and len(prob) < top_k.     *)
(***************************************************************************)
(* the loop continuing while cum_prob <= top_p *)
RECURSIVE NucleusLoopLe(_, _, _, _, _, _, _, _)
NucleusLoopLe(sorted_value, sorted_idx, i, cum_prob, prob, indices, top_p, top_k) ==
    IF i > Len(sorted_idx) THEN [prob |-> prob, indices |-> indices]
    ELSE IF cum_prob * top_p[2] <= top_p[1] * SumSeq(sorted_value) /\ Len(prob) < top_k
         THEN NucleusLoopLe(sorted_value, sorted_idx, i + 1, cum_prob + sorted_value[i],
                            Append(prob, sorted_value[i]), Append(indices, sorted_idx[i] - 1),
                            top_p, top_k)
         ELSE [prob |-> prob, indices |-> indices]

RECURSIVE NucleusLoop(_, _, _, _, _, _, _, _)
NucleusLoop(sorted_value, sorted_idx, i, cum_prob, prob, indices, top_p, top_k) ==
    IF i > Len(sorted_idx) THEN [prob |-> prob, indices |-> indices]
    ELSE IF cum_prob * top_p[2] < top_p[1] * SumSeq(sorted_value) /\ Len(prob) < top_k
         THEN NucleusLoop(sorted_value, sorted_idx, i + 1, cum_prob + sorted_value[i],
                          Append(prob, sorted_value[i]), Append(indices, sorted_idx[i] - 1),
                          top_p, top_k)
         ELSE [prob |-> prob, indices |-> indices]

NucleusCandidates(weighted_scores, top_p, top_k) ==
    LET p == Softmax(weighted_scores)
        sorted_idx == SortedIdx(p)
        sorted_value == [r \in 1..Len(p) |-> p[sorted_idx[r]]]
    IN  NucleusLoop(sorted_value, sorted_idx, 1, 0, <<>>, <<>>, top_p, top_k)

(* indices[prob.multinomial(1)]: the token ids the call can return *)
nucleus_sampling(weighted_scores, top_p, top_k) ==
    LET c == NucleusCandidates(weighted_scores, top_p, top_k)
    IN  {c.indices[j] : j \in {k \in 1..Len(c.prob) : c.prob[k] > 0}}

NoCall == [op |-> "none", kind |-> "none"]

(***************************************************************************)
(* Pure nucleus selection over score vectors of length 1..MaxLen: the      *)
(* initial states are the calls, the action is the call's execution.       *)
(***************************************************************************)
NucleusLogits == {1, 2, 3, 4, 30}
NucleusVectors == SeqsUpTo(NucleusLogits, MaxLen) \ {<<>>}
NucleusTopPs == {<<1, 4>>, <<1, 2>>, <<4, 5>>, <<1, 1>>}
NucleusTopKs == {1, 2, 3, 25}

InitNucleus ==
    /\ decoded_tokens = <<>>
    /\ call \in {[op |-> "nucleus_sampling", kind |-> "pending",
                  weighted_scores |-> ws, top_p |-> top_p, top_k |-> top_k] :
                 ws \in NucleusVectors, top_p \in NucleusTopPs, top_k \in NucleusTopKs}

NucleusSelect ==
    /\ call.op = "nucleus_sampling" /\ call.kind = "pending"
    /\ \E out \in nucleus_sampling(call.weighted_scores, call.top_p, call.top_k) :
         call' = [op |-> "nucleus_sampling", kind |-> "token",
                  weighted_scores |-> call.weighted_scores,
                  top_p |-> call.top_p, top_k |-> call.top_k,
                  indices |-> NucleusCandidates(call.weighted_scores, call.top_p, call.top_k).indices,
                  top_ids |-> out]
    /\ UNCHANGED decoded_tokens

NextNucleus == NucleusSelect

SpecNucleus == InitNucleus /\ [][NextNucleus]_vars

(***************************************************************************)
(* The generation loop: one sampler call per step on the caller's history, *)
(* then the caller appends the returned token.                             *)
(***************************************************************************)
Logits == {0, 20}
ScoreVectors == [1..VocabSize -> Logits]
GuidanceVectors ==
    { [i \in 1..VocabSize |-> IF i = 1 THEN NegInf ELSE 0],
      [i \in 1..VocabSize |-> IF i = VocabSize THEN 20 ELSE NegInf] }
TopPs == {<<1, 2>>, <<1, 1>>}
NucleusStepTopPs == TopPs \cup {<<3, 2>>}
TopKs == {1, VocabSize}
TopkTopKs == 1..(VocabSize + 1)
WinSizes == {-1, 0, 1, 2}
TauRs == {<<0, 1>>, <<1, 2>>, <<1, 1>>}

(* decoded_tokens[-win_size:] with Python's slice rules: -0 is 0, so a     *)
(* win_size of 0 takes the whole list; a negative win_size drops a prefix  *)
PySuffix(tokens, win_size) ==
    LET n == Len(tokens)
        start == IF win_size > 0 THEN (IF n - win_size > 0 THEN n - win_size ELSE 0)
                 ELSE Min(-win_size, n)
    IN  SubSeq(tokens, start + 1, n)

(* (torch.tensor(decoded_tokens[-win_size:]) == top_ids).sum().item() *)
RepNum(tokens, win_size, top_ids) ==
    LET w == PySuffix(tokens, win_size)
    IN  Cardinality({i \in 1..Len(w) : w[i] = top_ids})

(* the threshold compared strictly *)
RepeatsTooOftenStrict(rep_num, win_size, tau_r) == rep_num * tau_r[2] > win_size * tau_r[1]

(* rep_num >= win_size * tau_r *)
RepeatsTooOften(rep_num, win_size, tau_r) == rep_num * tau_r[2] >= win_size * tau_r[1]

(* ras_sampling: every (proposed, rep_num, branch, top_ids) the call can take *)
ras_sampling(weighted_scores, tokens, top_p, top_k, win_size, tau_r) ==
    UNION { LET rep_num == RepNum(tokens, win_size, proposed)
            IN  IF RepeatsTooOften(rep_num, win_size, tau_r)
                THEN {[proposed |-> proposed, rep_num |-> rep_num, branch |-> "Fallback",
                       top_ids |-> t] : t \in random_sampling(weighted_scores)}
                ELSE {[proposed |-> proposed, rep_num |-> rep_num, branch |-> "Propose",
                       top_ids |-> proposed]}
          : proposed \in nucleus_sampling(weighted_scores, top_p, top_k) }

(* the fallback drawing from the primary vector *)
caras_sampling_PrimaryFallback(pair, tokens, top_p, top_k, win_size, tau_r) ==
    ras_sampling(pair[1], tokens, top_p, top_k, win_size, tau_r)

(* caras_sampling: the pair is unpacked, the fallback draws from the second *)
caras_sampling(pair, tokens, top_p, top_k, win_size, tau_r) ==
    LET weighted_scores == pair[1]
        cfg_weighted_scores == pair[2]
    IN  UNION { LET rep_num == RepNum(tokens, win_size, proposed)
                IN  IF RepeatsTooOften(rep_num, win_size, tau_r)
                    THEN {[proposed |-> proposed, rep_num |-> rep_num, branch |-> "Fallback",
                           top_ids |-> t] : t \in random_sampling(cfg_weighted_scores)}
                    ELSE {[proposed |-> proposed, rep_num |-> rep_num, branch |-> "Propose",
                           top_ids |-> proposed]}
              : proposed \in nucleus_sampling(weighted_scores, top_p, top_k) }

(* torch.topk(weighted_scores, top_k): fails when top_k exceeds the size;  *)
(* otherwise any top_k positions no smaller than the rest (ties are the    *)
(* library's choice)                                                       *)
TopkIndexSets(weighted_scores, top_k) ==
    LET n == Len(weighted_scores)
    IN  IF top_k > n THEN {}
        ELSE {S \in SUBSET (1..n) :
                /\ Cardinality(S) = top_k
                /\ \A i \in S, j \in (1..n) \ S : weighted_scores[i] >= weighted_scores[j]}

(* zeros.scatter_(-1, indices, values) on a vector filled with -inf *)
TopkMasked(weighted_scores, S) ==
    [i \in 1..Len(weighted_scores) |-> IF i \in S THEN weighted_scores[i] ELSE NegInf]

(* topk_sampling: every outcome of the call *)
topk_sampling(weighted_scores, top_k) ==
    IF TopkIndexSets(weighted_scores, top_k) = {}
    THEN {[kind |-> "RuntimeError", zeros |-> <<>>, top_ids |-> -1]}
    ELSE UNION { {[kind |-> "token", zeros |-> TopkMasked(weighted_scores, S), top_ids |-> t]
                  : t \in random_sampling(TopkMasked(weighted_scores, S))}
               : S \in TopkIndexSets(weighted_scores, top_k) }

Init ==
    /\ decoded_tokens = <<>>
    /\ call = NoCall

RasStep ==
    /\ call = NoCall
    /\ \E ws \in ScoreVectors, top_p \in TopPs, top_k \in TopKs,
          win_size \in WinSizes, tau_r \in TauRs :
         \E r \in ras_sampling(ws, decoded_tokens, top_p, top_k, win_size, tau_r) :
           call' = [op |-> "ras_sampling", kind |-> "token", weighted_scores |-> ws,
                    top_p |-> top_p, top_k |-> top_k, win_size |-> win_size, tau_r |-> tau_r,
                    proposed |-> r.proposed, rep_num |-> r.rep_num, branch |-> r.branch,
                    top_ids |-> r.top_ids]
    /\ UNCHANGED decoded_tokens

CarasStep ==
    /\ call = NoCall
    /\ \E ws \in ScoreVectors, cfg \in GuidanceVectors, top_p \in TopPs, top_k \in TopKs,
          win_size \in WinSizes, tau_r \in TauRs :
         \E r \in caras_sampling(<<ws, cfg>>, decoded_tokens, top_p, top_k, win_size, tau_r) :
           call' = [op |-> "caras_sampling", kind |-> "token", weighted_scores |-> ws,
                    cfg_weighted_scores |-> cfg,
                    top_p |-> top_p, top_k |-> top_k, win_size |-> win_size, tau_r |-> tau_r,
                    proposed |-> r.proposed, rep_num |-> r.rep_num, branch |-> r.branch,
                    top_ids |-> r.top_ids]
    /\ UNCHANGED decoded_tokens

NucleusStep ==
    /\ call = NoCall
    /\ \E ws \in ScoreVectors, top_p \in NucleusStepTopPs, top_k \in TopKs :
         \E out \in nucleus_sampling(ws, top_p, top_k) :
           call' = [op |-> "nucleus_sampling", kind |-> "token", weighted_scores |-> ws,
                    top_p |-> top_p, top_k |-> top_k,
                    indices |-> NucleusCandidates(ws, top_p, top_k).indices,
                    top_ids |-> out]
    /\ UNCHANGED decoded_tokens

TopkStep ==
    /\ call = NoCall
    /\ \E ws \in ScoreVectors, top_k \in TopkTopKs :
         \E r \in topk_sampling(ws, top_k) :
           call' = [op |-> "topk_sampling", kind |-> r.kind, weighted_scores |-> ws,
                    top_k |-> top_k, zeros |-> r.zeros, top_ids |-> r.top_ids]
    /\ UNCHANGED decoded_tokens

RandomStep ==
    /\ call = NoCall
    /\ \E ws \in ScoreVectors \cup GuidanceVectors :
         \E out \in random_sampling(ws) :
           call' = [op |-> "random_sampling", kind |-> "token", weighted_scores |-> ws,
                    top_ids |-> out]
    /\ UNCHANGED decoded_tokens

(* the caller appends the returned token to its history *)
AppendToken ==
    /\ call.kind = "token"
    /\ Len(decoded_tokens) < MaxHistory
    /\ decoded_tokens' = Append(decoded_tokens, call.top_ids)
    /\ call' = NoCall

Next ==
    \/ RasStep
    \/ CarasStep
    \/ NucleusStep
    \/ TopkStep
    \/ RandomStep
    \/ AppendToken

Spec == Init /\ [][Next]_vars

(***************************************************************************)
(* pad_list on a list of rank-1 tensors (ndim 1), or of tensors of a rank  *)
(* the function rejects (ndim 4).                                          *)
(***************************************************************************)
MaxOf(S) == CHOOSE m \in S : \A k \in S : k <= m

(* torch.zeros(batchs, max_len) *)
Zeros(batchs, max_len) == [i \in 1..batchs |-> [j \in 1..max_len |-> 0]]

(* fill_ left out: the container stays zero-filled *)
FillSkipped(t, pad_value) == t

(* pad_res.fill_(pad_value) *)
Fill(t, pad_value) == [i \in 1..Len(t) |-> [j \in 1..Len(t[i]) |-> pad_value]]

(* pad_res[i, :len(xs[i])] = xs[i], for i in range(batchs) from row i on *)
RECURSIVE CopyRows(_, _, _)
CopyRows(pad_res, xs, i) ==
    IF i > Len(xs) THEN pad_res
    ELSE CopyRows([pad_res EXCEPT ![i] =
                      [j \in 1..Len(pad_res[i]) |-> IF j <= Len(xs[i]) THEN xs[i][j] ELSE @[j]]],
                  xs, i + 1)

pad_list(xs, ndim, pad_value) ==
    LET max_len == MaxOf({Len(xs[i]) : i \in 1..Len(xs)})
        batchs == Len(xs)
    IN  IF ndim = 1
        THEN [kind |-> "tensor",
              pad_res |-> CopyRows(Fill(Zeros(batchs, max_len), pad_value), xs, 1)]
        ELSE [kind |-> "ValueError", pad_res |-> <<>>]

PadItems == {[j \in 1..l |-> a + j - 1] : a \in {1, 5}, l \in 0..MaxSeqLen}
PadValues == {0, -1}

InitPad ==
    /\ decoded_tokens = <<>>
    /\ call \in {[op |-> "pad_list", kind |-> "pending", xs |-> xs, ndim |-> ndim,
                  pad_value |-> v] :
                 xs \in SeqsUpTo(PadItems, MaxBatch) \ {<<>>}, ndim \in {1, 4}, v \in PadValues}

PadList ==
    /\ call.op = "pad_list" /\ call.kind = "pending"
    /\ LET r == pad_list(call.xs, call.ndim, call.pad_value)
       IN  call' = [op |-> "pad_list", kind |-> r.kind, xs |-> call.xs, ndim |-> call.ndim,
                    pad_value |-> call.pad_value, pad_res |-> r.pad_res]
    /\ UNCHANGED decoded_tokens

NextPad == PadList

SpecPad == InitPad /\ [][NextPad]_vars

(***************************************************************************)
(* relieve_repetition.  A weight is a rational <<n, d>>, d > 0.            *)
(***************************************************************************)
RLess(a, b) == a[1] * b[2] < b[1] * a[2]
REq(a, b) == a[1] * b[2] = b[1] * a[2]
RAdd(a, b) == <<a[1] * b[2] + b[1] * a[2], a[2] * b[2]>>
RDiv(a, b) == <<a[1] * b[2], a[2] * b[1]>>

(* the penalty applied once for each distinct token of the window *)
RECURSIVE relieve_repetition_Distinct(_, _, _)
relieve_repetition_Distinct(weighted_scores, recent_tokens, repetition_penalty) ==
    IF recent_tokens = <<>> THEN weighted_scores
    ELSE LET token == Head(recent_tokens)
             seen == token \in Range(Tail(recent_tokens))
         IN  relieve_repetition_Distinct(
                 IF weighted_scores[token + 1][1] > 0 /\ ~seen
                 THEN [weighted_scores EXCEPT ![token + 1] = RDiv(@, repetition_penalty)]
                 ELSE weighted_scores,
                 Tail(recent_tokens), repetition_penalty)

(* for token in recent_tokens: if weighted_scores[token] > 0:              *)
(*     weighted_scores[token] /= repetition_penalty                        *)
RECURSIVE relieve_repetition(_, _, _)
relieve_repetition(weighted_scores, recent_tokens, repetition_penalty) ==
    IF recent_tokens = <<>> THEN weighted_scores
    ELSE LET token == Head(recent_tokens)
         IN  relieve_repetition(
                 IF weighted_scores[token + 1][1] > 0
                 THEN [weighted_scores EXCEPT ![token + 1] = RDiv(@, repetition_penalty)]
                 ELSE weighted_scores,
                 Tail(recent_tokens), repetition_penalty)

Tokens == 0..(VocabSize - 1)
RecentWindows == SeqsUpTo(Tokens, MaxRecent)
PenaltyWeights == [1..VocabSize -> {<<-1, 1>>, <<0, 1>>, <<1, 1>>, <<2, 1>>}]
Penalties == {<<1, 1>>, <<6, 5>>, <<2, 1>>}

InitPenalty ==
    /\ decoded_tokens = <<>>
    /\ call \in {[op |-> "relieve_repetition", kind |-> "pending", weighted_scores |-> ws,
                  recent_tokens |-> rt, repetition_penalty |-> pen] :
                 ws \in PenaltyWeights, rt \in RecentWindows, pen \in Penalties}

RelieveRepetition ==
    /\ call.op = "relieve_repetition" /\ call.kind = "pending"
    /\ call' = [op |-> "relieve_repetition", kind |-> "scores",
                weighted_scores |-> call.weighted_scores,
                recent_tokens |-> call.recent_tokens,
                repetition_penalty |-> call.repetition_penalty,
                result |-> relieve_repetition(call.weighted_scores, call.recent_tokens,
                                              call.repetition_penalty)]
    /\ UNCHANGED decoded_tokens

NextPenalty == RelieveRepetition

SpecPenalty == InitPenalty /\ [][NextPenalty]_vars

(***************************************************************************)
(* top_p_sampling_with_constraints.  The weights are non-negative integers *)
(* with a positive sum; the temperature is 0 or the reciprocal of an       *)
(* integer, so that 1 / temperature is an integer exponent.                *)
(***************************************************************************)
(* the allowed sets of the external lookup, one list per context *)
get_allowed_notes(current_chord) == <<0, 1>>

get_allowed_durations(current_time_signature) == <<1, 2>>

(* if next_token not in allowed: next_token = random.choice(allowed).      *)
(* next_token is the tensor of selected weights or, once replaced, an int. *)
(* tensor in list compares the tensor with each entry of the list: the     *)
(* truth value of a comparison with a tensor of several entries is a       *)
(* RuntimeError, a tensor of one entry is in the list when its weight      *)
(* equals an entry.                                                        *)
KeepAllowed(next_token, allowed) ==
    IF next_token.type = "tensor" /\ Len(next_token.value) > 1
    THEN {[kind |-> "RuntimeError", type |-> "none", value |-> <<>>]}
    ELSE IF \/ next_token.type = "int" /\ next_token.value \in Range(allowed)
            \/ next_token.type = "tensor"
                 /\ \E e \in Range(allowed) : REq(next_token.value[1], <<e, 1>>)
         THEN {next_token}
         ELSE {[kind |-> "ok", type |-> "int", value |-> e] : e \in Range(allowed)}

(* the file binds none of get_allowed_notes, get_allowed_durations and     *)
(* random: unless the caller has bound them in the module (hooks_bound),   *)
(* the first statement of a hook raises NameError                          *)
keep_harmony(next_token, current_chord, hooks_bound) ==
    IF ~hooks_bound THEN {[kind |-> "NameError", type |-> "none", value |-> <<>>]}
    ELSE KeepAllowed(next_token, get_allowed_notes(current_chord))

keep_rhythm(next_token, current_time_signature, hooks_bound) ==
    IF ~hooks_bound THEN {[kind |-> "NameError", type |-> "none", value |-> <<>>]}
    ELSE KeepAllowed(next_token, get_allowed_durations(current_time_signature))

(* torch.sort(weighted_scores, descending=True): the values only *)
SortedValues(v) ==
    LET n == Len(v)
        Rank(i) == Cardinality({j \in 1..n : RLess(v[i], v[j]) \/ (REq(v[j], v[i]) /\ j < i)}) + 1
    IN  [r \in 1..n |-> v[CHOOSE i \in 1..n : Rank(i) = r]]

(* torch.cumsum(sorted_weighted_scores, dim=0) *)
RECURSIVE CumSum(_, _)
CumSum(v, k) == IF k = 1 THEN v[1] ELSE RAdd(CumSum(v, k - 1), v[k])

(* random_sampling on a vector of finite values: every entry of its        *)
(* softmax is positive, so the draw can return any position                *)
random_sampling_finite(weighted_scores) == {i - 1 : i \in 1..Len(weighted_scores)}

DefaultPenalty == <<6, 5>>

top_p_sampling_with_constraints(weighted_scores, top_p, temperature, current_chord, current_time_signature, recent_tokens, hooks_bound) ==
    IF temperature[1] = 0 THEN {[kind |-> "ZeroDivisionError", top_ids |-> -1]}
    ELSE
    LET exponent == temperature[2] \div temperature[1]
        scaled == [i \in 1..Len(weighted_scores) |-> Pow(weighted_scores[i], exponent)]
        total == SumSeq(scaled)
        normalized == [i \in 1..Len(scaled) |-> <<scaled[i], total>>]
        penalized == IF recent_tokens # <<>>
                     THEN relieve_repetition(normalized, recent_tokens, DefaultPenalty)
                     ELSE normalized
        sorted_weighted_scores == SortedValues(penalized)
        reached == {k \in 1..Len(sorted_weighted_scores) :
                      ~RLess(CumSum(sorted_weighted_scores, k), top_p)}
    IN  IF reached = {} THEN {[kind |-> "IndexError", top_ids |-> -1]}
        ELSE
        LET cutoff_index == (CHOOSE k \in reached : \A m \in reached : k <= m) - 1
            selected == [kind |-> "ok", type |-> "tensor",
                         value |-> SubSeq(sorted_weighted_scores, 1, cutoff_index + 1)]
            harmony == IF current_chord # "None"
                       THEN keep_harmony(selected, current_chord, hooks_bound)
                       ELSE {selected}
            rhythm == UNION { IF h.kind = "ok" /\ current_time_signature # "None"
                              THEN keep_rhythm(h, current_time_signature, hooks_bound)
                              ELSE {h}
                            : h \in harmony }
        IN  UNION { IF r.kind # "ok" THEN {[kind |-> r.kind, top_ids |-> -1]}
                    ELSE IF r.type = "int"
                         THEN {[kind |-> "AttributeError", top_ids |-> -1]}
                         ELSE {[kind |-> "token", top_ids |-> t]
                               : t \in random_sampling_finite(r.value)}
                  : r \in rhythm }

ConstraintWeights == {ws \in [1..VocabSize -> 0..2] : SumSeq(ws) > 0}
ConstraintTopPs == {<<1, 2>>, <<17, 20>>, <<1, 1>>}
Temperatures == {<<0, 1>>, <<1, 2>>, <<1, 1>>}
Chords == {"None", "C"}
TimeSignatures == {"None", "4/4"}

InitConstraints ==
    /\ decoded_tokens = <<>>
    /\ call \in {[op |-> "top_p_sampling_with_constraints", kind |-> "pending",
                  weighted_scores |-> ws, top_p |-> top_p, temperature |-> t,
                  current_chord |-> ch, current_time_signature |-> ts, recent_tokens |-> rt,
                  hooks_bound |-> hb] :
                 ws \in ConstraintWeights, top_p \in ConstraintTopPs, t \in Temperatures,
                 ch \in Chords, ts \in TimeSignatures, rt \in RecentWindows,
                 hb \in BOOLEAN}

TopPSamplingWithConstraints ==
    /\ call.op = "top_p_sampling_with_constraints" /\ call.kind = "pending"
    /\ \E r \in top_p_sampling_with_constraints(call.weighted_scores, call.top_p,
                  call.temperature, call.current_chord, call.current_time_signature,
                  call.recent_tokens, call.hooks_bound) :
         call' = [call EXCEPT !.kind = r.kind] @@ [top_ids |-> r.top_ids]
    /\ UNCHANGED decoded_tokens

NextConstraints == TopPSamplingWithConstraints

SpecConstraints == InitConstraints /\ [][NextConstraints]_vars

(***************************************************************************)
(* Properties of the samplers.                                             *)
(***************************************************************************)
ValidTopP(top_p) == 0 < top_p[1] /\ top_p[1] <= top_p[2]
ValidTauR(tau_r) == 0 <= tau_r[1] /\ tau_r[1] <= tau_r[2]
IsSampler(op) ==
    op \in {"ras_sampling", "caras_sampling", "nucleus_sampling", "topk_sampling",
            "random_sampling"}

(* C1: every token the five samplers return, and so every token of the     *)
(* history the caller builds from them, is an index into the score vector: *)
(* 0 <= id < n.                                                            *)
C1_TokenInVocabulary ==
    /\ \A i \in 1..Len(decoded_tokens) : decoded_tokens[i] \in 0..(VocabSize - 1)
    /\ (IsSampler(call.op) /\ call.kind = "token")
         => call.top_ids \in 0..(Len(call.weighted_scores) - 1)

C1_Witness ==
    /\ Len(decoded_tokens) = MaxHistory
    /\ call.op = "ras_sampling" /\ call.kind = "token" /\ call.branch = "Fallback"
    /\ ValidTopP(call.top_p) /\ ValidTauR(call.tau_r) /\ call.win_size > 0
    /\ call.top_ids = VocabSize - 1

(* the number of entries equal to x among the last w entries of tokens *)
CountInLast(tokens, w, x) ==
    Cardinality({i \in 1..Len(tokens) : i > Len(tokens) - w /\ tokens[i] = x})

(* C3: ras_sampling takes the Fallback branch exactly when the proposed    *)
(* candidate occurs at least win_size * tau_r times among the last         *)
(* win_size history entries, and otherwise returns the proposed candidate; *)
(* when the last win_size entries all equal the candidate and the          *)
(* threshold is 1, Fallback is taken.                                      *)
C3_FallbackIffRepeated ==
    (call.op = "ras_sampling" /\ call.win_size >= 0) =>
      LET cnt == CountInLast(decoded_tokens, call.win_size, call.proposed)
          n == Len(decoded_tokens)
      IN  /\ call.branch = "Fallback" <=> cnt * call.tau_r[2] >= call.win_size * call.tau_r[1]
          /\ call.branch # "Fallback" => (call.branch = "Propose" /\ call.top_ids = call.proposed)
          /\ ( /\ call.win_size >= 1 /\ n >= call.win_size
               /\ call.win_size * call.tau_r[1] = call.tau_r[2]
               /\ \A i \in (n - call.win_size + 1)..n : decoded_tokens[i] = call.proposed )
             => call.branch = "Fallback"

C3_Witness ==
    /\ call.op = "ras_sampling" /\ call.branch = "Fallback"
    /\ call.win_size = 2 /\ call.tau_r = <<1, 2>>
    /\ Len(decoded_tokens) = 2
    /\ decoded_tokens[1] = call.proposed /\ decoded_tokens[2] = call.proposed
    /\ call.top_ids # call.proposed

(* C4: in caras_sampling the proposed candidate is one of the nucleus of   *)
(* the primary vector, and a token returned by Fallback has positive       *)
(* probability under the guidance vector.                                  *)
C4_FallbackFromGuidance ==
    call.op = "caras_sampling" =>
      /\ call.proposed \in
           Range(NucleusCandidates(call.weighted_scores, call.top_p, call.top_k).indices)
      /\ call.branch = "Fallback" => Softmax(call.cfg_weighted_scores)[call.top_ids + 1] > 0
      /\ call.branch = "Propose" => call.top_ids = call.proposed

(* a Fallback token outside the primary nucleus, where another token has   *)
(* probability zero under the guidance vector                              *)
C4_Witness ==
    /\ call.op = "caras_sampling" /\ call.branch = "Fallback"
    /\ ValidTopP(call.top_p) /\ ValidTauR(call.tau_r) /\ call.win_size > 0
    /\ call.top_ids \notin
         Range(NucleusCandidates(call.weighted_scores, call.top_p, call.top_k).indices)
    /\ \E i \in 1..VocabSize : call.cfg_weighted_scores[i] = NegInf

(* C5: a call with an invalid parameter ends in InvalidParameterError, and *)
(* returns no token.                                                       *)
C5_InvalidParameterRejected ==
    /\ (call.op \in {"ras_sampling", "caras_sampling"}
          /\ (~ValidTopP(call.top_p) \/ call.top_k <= 0 \/ call.win_size < 0
                \/ ~ValidTauR(call.tau_r)))
         => call.kind = "InvalidParameterError"
    /\ (call.op = "nucleus_sampling" /\ (~ValidTopP(call.top_p) \/ call.top_k <= 0))
         => call.kind = "InvalidParameterError"

(* C6: topk_sampling with top_k >= n returns a token and masks no entry.   *)
C6_TopkClampsToVocabulary ==
    (call.op = "topk_sampling" /\ call.top_k >= Len(call.weighted_scores)) =>
      /\ call.kind = "token"
      /\ call.zeros = call.weighted_scores

(***************************************************************************)
(* Properties of the nucleus selection.                                    *)
(***************************************************************************)
(* the length of the shortest prefix of the order whose mass reaches top_p, *)
(* the whole order when none does                                          *)
ShortestPrefix(p, order, top_p) ==
    LET n == Len(p)
        Mass(k) == SumSeq([r \in 1..k |-> p[order[r]]])
        reach == {k \in 1..n : Mass(k) * top_p[2] >= top_p[1] * SumSeq(p)}
    IN  IF reach = {} THEN n ELSE CHOOSE k \in reach : \A m \in reach : k <= m

(* C2: the candidate set of nucleus_sampling is the shortest prefix of the *)
(* stable descending-probability order whose mass reaches top_p, cut to    *)
(* top_k entries; it has between 1 and top_k entries and holds the         *)
(* returned token.                                                         *)
C2_NucleusIsShortestPrefix ==
    (call.op = "nucleus_sampling" /\ call.kind = "token") =>
      LET p == Softmax(call.weighted_scores)
          n == Len(p)
          order == SortedIdx(p)
          size == Min(ShortestPrefix(p, order, call.top_p), call.top_k)
      IN  /\ \A r \in 1..n, q \in 1..n :
                r < q => \/ p[order[r]] > p[order[q]]
                         \/ (p[order[r]] = p[order[q]] /\ order[r] < order[q])
          /\ call.indices = [r \in 1..size |-> order[r] - 1]
          /\ 1 <= Len(call.indices) /\ Len(call.indices) <= call.top_k
          /\ call.top_ids \in Range(call.indices)

(* a call cut to top_k entries before the mass reaches top_p *)
C2_Witness ==
    /\ call.op = "nucleus_sampling" /\ call.kind = "token"
    /\ call.weighted_scores = <<1, 1, 3>> /\ call.top_p = <<4, 5>> /\ call.top_k = 2
    /\ call.indices = <<2, 0>> /\ call.top_ids = 0

(* C8 as claimed: scores [0.4, 0.3, 0.2, 0.1], top_p 0.8, top_k 25 give    *)
(* the candidate set of token ids 0, 1, 2, and token 3 is not returned.    *)
C8_ThreeCandidates ==
    ( /\ call.op = "nucleus_sampling" /\ call.kind = "token"
      /\ call.weighted_scores = <<4, 3, 2, 1>> /\ call.top_p = <<4, 5>> /\ call.top_k = 25 )
    => (call.indices = <<0, 1, 2>> /\ call.top_ids # 3)

(* C8 amended: the softmax of [0.4, 0.3, 0.2, 0.1] is about                *)
(* [0.289, 0.261, 0.236, 0.214], whose first three entries have mass       *)
(* 0.786 < 0.8, so the candidate set is all four token ids.                *)
C8_FourCandidates ==
    ( /\ call.op = "nucleus_sampling" /\ call.kind = "token"
      /\ call.weighted_scores = <<4, 3, 2, 1>> /\ call.top_p = <<4, 5>> /\ call.top_k = 25 )
    => call.indices = <<0, 1, 2, 3>>

C8_Witness ==
    /\ call.op = "nucleus_sampling" /\ call.kind = "token"
    /\ call.weighted_scores = <<4, 3, 2, 1>> /\ call.top_p = <<4, 5>> /\ call.top_k = 25
    /\ call.top_ids = 3

(***************************************************************************)
(* Properties of the constraint filter, the penalty and the padding.       *)
(***************************************************************************)
(* C7: a call with a constraint context that reaches the constraint filter *)
(* returns a token of the allowed set of that context.                     *)
C7_TokenInAllowedSet ==
    ( /\ call.op = "top_p_sampling_with_constraints"
      /\ call.kind \notin {"pending", "ZeroDivisionError", "IndexError"}
      /\ (call.current_chord # "None" \/ call.current_time_signature # "None") )
    => /\ call.kind = "token"
       /\ IF call.current_time_signature # "None"
          THEN call.top_ids \in Range(get_allowed_durations(call.current_time_signature))
          ELSE call.top_ids \in Range(get_allowed_notes(call.current_chord))

(* the number of entries of s equal to x *)
Occurrences(s, x) == Cardinality({i \in 1..Len(s) : s[i] = x})

(* C10 as claimed: a positive weight of a token of the window is divided   *)
(* by the penalty exactly once, however often the token occurs; the other  *)
(* weights are unchanged.                                                  *)
C10_DividedOnce ==
    (call.op = "relieve_repetition" /\ call.kind = "scores") =>
      \A t \in Tokens :
        IF t \in Range(call.recent_tokens) /\ call.weighted_scores[t + 1][1] > 0
        THEN REq(call.result[t + 1], RDiv(call.weighted_scores[t + 1], call.repetition_penalty))
        ELSE call.result[t + 1] = call.weighted_scores[t + 1]

(* C10 amended: a positive weight is divided by the penalty once for each  *)
(* occurrence of its token in the window, and stays positive; the weights  *)
(* of tokens not in the window and the non-positive weights are unchanged. *)
C10_DividedPerOccurrence ==
    (call.op = "relieve_repetition" /\ call.kind = "scores") =>
      \A t \in Tokens :
        LET c == Occurrences(call.recent_tokens, t)
            w == call.weighted_scores[t + 1]
            pen == call.repetition_penalty
        IN  IF c > 0 /\ w[1] > 0
            THEN /\ REq(call.result[t + 1], <<w[1] * Pow(pen[2], c), w[2] * Pow(pen[1], c)>>)
                 /\ call.result[t + 1][1] > 0
            ELSE call.result[t + 1] = w

C10_Witness ==
    /\ call.op = "relieve_repetition" /\ call.kind = "scores"
    /\ call.recent_tokens = <<0, 0>> /\ call.repetition_penalty = <<6, 5>>
    /\ call.weighted_scores[1] = <<2, 1>> /\ call.weighted_scores[2] = <<-1, 1>>
    /\ REq(call.result[1], <<50, 36>>)

(* C9: pad_list on rank-1 sequences returns batch rows of max_length       *)
(* entries, row i holding sequence i and then the pad value.               *)
C9_PaddedRows ==
    (call.op = "pad_list" /\ call.kind # "pending" /\ call.ndim = 1) =>
      /\ call.kind = "tensor"
      /\ Len(call.pad_res) = Len(call.xs)
      /\ \A i \in 1..Len(call.xs) :
           /\ Len(call.pad_res[i]) = MaxOf({Len(call.xs[k]) : k \in 1..Len(call.xs)})
           /\ \A j \in 1..Len(call.pad_res[i]) :
                call.pad_res[i][j] = IF j <= Len(call.xs[i]) THEN call.xs[i][j]
                                     ELSE call.pad_value

C9_Witness ==
    /\ call.op = "pad_list" /\ call.kind = "tensor"
    /\ call.xs = <<(<<1, 2, 3, 4>>), (<<5, 6>>), (<<1>>)>> /\ call.pad_value = -1
    /\ call.pad_res = <<(<<1, 2, 3, 4>>), (<<5, 6, -1, -1>>), (<<1, -1, -1, -1>>)>>

====
